---- MODULE Spec2Model ----
(***************************************************************************)
(* The histogram reduction of the Geant4 comparison application:           *)
(* RunAction (binning, accumulation, end-of-run write), SteppingAction     *)
(* (the per-step callback) and ActionInitialization (one RunAction for the *)
(* master, one per worker).                                                *)
(*                                                                         *)
(* Numbers.  G4double quantities are modelled exactly, on grids:           *)
(*   - a z coordinate is an integer number of 1/ZGrid mm;                  *)
(*   - a deposited energy is an integer number of MeV (Geant4's internal   *)
(*     energy unit); sums of such values are exact in a double;            *)
(*   - a kinetic energy is [sign, lg]: sign -1, 0 or 1 and, for a positive *)
(*     energy, lg = LogGrid * log10(energy / MeV), an integer, so that     *)
(*     std::log10 is exact on the grid.                                    *)
(* Rounding of double arithmetic below these grids is not modelled.        *)
(* A std::vector is a sequence; element i of the vector is v[i + 1].       *)
(***************************************************************************)
EXTENDS Integers, Sequences, FiniteSets, TLC

\* ------------------------------------------------------------------ bounds
\* Number of worker threads of a multithreaded run.
NWorkers == 2
\* Stepping callbacks delivered in one run, over all workers.
MaxSteps == 2
\* Calls made on one RunAction, called directly.
MaxCalls == 3
\* Threads that call into one RunAction at the same time.
NCallers == 2
\* Grid points per mm of the z coordinate.
ZGrid == 2
\* Grid points per decade of a kinetic energy.
LogGrid == 2

\* ------------------------------------------------------- units (Geant4)
\* G4SystemOfUnits: lengths in mm, energies in MeV.
cm == 10
GeV == 1000

\* --------------------------------------------------------------- numbers
\* static_cast<G4int>(n / d) for d > 0: truncation toward zero.
Trunc(n, d) == IF n >= 0 THEN n \div d ELSE -((-n) \div d)

\* A kinetic energy or an energy bound.
Energy(sign, lg) == [sign |-> sign, lg |-> lg]
EZero == Energy(0, 0)
ENeg == Energy(-1, 0)
EPos(lg) == Energy(1, lg)

\* e1 < e2 on G4double energies.
ELess(e1, e2) ==
    IF e1.sign # e2.sign THEN e1.sign < e2.sign
    ELSE IF e1.sign = 1 THEN e1.lg < e2.lg
    ELSE IF e1.sign = -1 THEN e1.lg > e2.lg
    ELSE FALSE

\* LogGrid * std::log10(e) for e > 0.
Log10(e) == e.lg

Zeros(n) == [i \in 1..n |-> 0]

\* ------------------------------------------------------------- RunAction
\* RunAction::RunAction: the fields after construction. The two vectors are
\* empty until BeginOfRunAction; fMutex is 0 when free, else its holder.
RunActionCtor ==
    [fZBins |-> 100,
     fZMin |-> 0,
     fZMax |-> 2 * cm * ZGrid,
     fEdepHist |-> << >>,
     fEnergyBins |-> 100,
     fEMin |-> EPos(-8 * LogGrid),      \* 1e-11 * GeV = 1e-8 MeV
     fEMax |-> EPos(4 * LogGrid),       \* 10 * GeV = 1e4 MeV
     fNeutronSpectrum |-> << >>,
     fMutex |-> 0]

SetZBins(self, n) == [self EXCEPT !.fZBins = n]
SetZRange(self, zmin, zmax) == [self EXCEPT !.fZMin = zmin, !.fZMax = zmax]
SetEnergyBins(self, n) == [self EXCEPT !.fEnergyBins = n]
SetEnergyRange(self, emin, emax) == [self EXCEPT !.fEMin = emin, !.fEMax = emax]

\* A slip: the upper bound of the range taken as inside it.
GetZBinClosed(self, z) ==
    IF z < self.fZMin \/ z > self.fZMax THEN -1
    ELSE Trunc((z - self.fZMin) * self.fZBins, self.fZMax - self.fZMin)

\* RunAction::GetZBin
GetZBin(self, z) ==
    IF z < self.fZMin \/ z >= self.fZMax THEN -1
    ELSE Trunc((z - self.fZMin) * self.fZBins, self.fZMax - self.fZMin)

\* A slip: no check of the lower bound of the range.
GetEnergyBinNoLowerBound(self, e) ==
    IF e.sign <= 0 \/ ~ELess(e, self.fEMax) THEN -1
    ELSE LET logMin == Log10(self.fEMin)
             logMax == Log10(self.fEMax)
             logE == Log10(e)
         IN  Trunc((logE - logMin) * self.fEnergyBins, logMax - logMin)

\* RunAction::GetEnergyBin, for a positive fEMin.
GetEnergyBin(self, e) ==
    IF e.sign <= 0 \/ ELess(e, self.fEMin) \/ ~ELess(e, self.fEMax) THEN -1
    ELSE LET logMin == Log10(self.fEMin)
             logMax == Log10(self.fEMax)
             logE == Log10(e)
         IN  Trunc((logE - logMin) * self.fEnergyBins, logMax - logMin)

\* A slip: the vectors resized, which keeps what they hold.
BeginOfRunResizes(self) ==
    [self EXCEPT
       !.fEdepHist = [k \in 1..self.fZBins |->
                         IF k <= Len(self.fEdepHist) THEN self.fEdepHist[k] ELSE 0],
       !.fNeutronSpectrum = [k \in 1..self.fEnergyBins |->
                                IF k <= Len(self.fNeutronSpectrum)
                                THEN self.fNeutronSpectrum[k] ELSE 0]]

\* RunAction::BeginOfRunAction: both vectors assigned zeros.
BeginOfRun(self) ==
    [self EXCEPT !.fEdepHist = Zeros(self.fZBins),
                 !.fNeutronSpectrum = Zeros(self.fEnergyBins)]

\* A slip: the deposit assigned instead of added.
AddEdepAssigns(self, zBin, edep) ==
    IF zBin >= 0 /\ zBin < self.fZBins
    THEN [self EXCEPT !.fEdepHist[zBin + 1] = edep]
    ELSE self

\* A slip: every deposit counted as 1, as AddNeutronExit counts.
AddEdepCounts(self, zBin, edep) ==
    IF zBin >= 0 /\ zBin < self.fZBins
    THEN [self EXCEPT !.fEdepHist[zBin + 1] = @ + 1]
    ELSE self

\* A slip: a bin out of range clamped to the nearest bin instead of dropped.
AddEdepClamps(self, zBin, edep) ==
    LET bin == IF zBin < 0 THEN 0
               ELSE IF zBin >= self.fZBins THEN self.fZBins - 1 ELSE zBin
    IN  [self EXCEPT !.fEdepHist[bin + 1] = @ + edep]

\* RunAction::AddEdep, called by the one thread that owns the RunAction: the
\* lock is taken and released inside the call.
AddEdep(self, zBin, edep) ==
    IF zBin >= 0 /\ zBin < self.fZBins
    THEN [self EXCEPT !.fEdepHist[zBin + 1] = @ + edep]
    ELSE self

\* A slip: bin 0 taken for out of range.
AddNeutronExitSkipsBin0(self, energy) ==
    LET bin == GetEnergyBin(self, energy)
    IN  IF bin > 0 /\ bin < self.fEnergyBins
        THEN [self EXCEPT !.fNeutronSpectrum[bin + 1] = @ + 1]
        ELSE self

\* RunAction::AddNeutronExit, called by the owning thread.
AddNeutronExit(self, energy) ==
    LET bin == GetEnergyBin(self, energy)
    IN  IF bin >= 0 /\ bin < self.fEnergyBins
        THEN [self EXCEPT !.fNeutronSpectrum[bin + 1] = @ + 1]
        ELSE self

\* ------------------------------------------------------------ the writer
\* A rational number num / den.
Rat(num, den) == [num |-> num, den |-> den]
\* What a stream prints for a NaN.
NaN == [num |-> 0, den |-> 0]
\* A file that was never written.
NoFile == [exists |-> FALSE, header |-> "", lines |-> << >>]

\* The edep_profile.dat that WriteResults writes: per bin, the centre in cm
\* and the content in GeV.
EdepProfile(self) ==
    [exists |-> TRUE,
     header |-> "# z_cm edep_GeV",
     lines |-> [k \in 1..self.fZBins |->
        [x |-> Rat(2 * self.fZBins * self.fZMin
                     + (2 * (k - 1) + 1) * (self.fZMax - self.fZMin),
                   2 * self.fZBins * ZGrid * cm),
         y |-> Rat(self.fEdepHist[k], GeV)]]]

\* A slip: the bounds taken in MeV, not divided by GeV.
NeutronSpectrumFileInMeV(self) ==
    [exists |-> TRUE,
     header |-> "# energy_GeV count",
     lines |-> [k \in 1..self.fEnergyBins |->
        [x |-> Rat(2 * self.fEnergyBins * Log10(self.fEMin)
                     + (2 * (k - 1) + 1) * (Log10(self.fEMax) - Log10(self.fEMin)),
                   2 * self.fEnergyBins * LogGrid),
         y |-> self.fNeutronSpectrum[k]]]]

\* The neutron_spectrum.dat that WriteResults writes: per bin, log10 of the
\* centre in GeV (the file holds 10 to that power) and the count.
NeutronSpectrumFile(self) ==
    [exists |-> TRUE,
     header |-> "# energy_GeV count",
     lines |-> [k \in 1..self.fEnergyBins |->
        [x |-> IF self.fEMin.sign = 1 /\ self.fEMax.sign = 1
               THEN Rat(2 * self.fEnergyBins * (Log10(self.fEMin) - 3 * LogGrid)
                          + (2 * (k - 1) + 1)
                              * (Log10(self.fEMax) - Log10(self.fEMin)),
                        2 * self.fEnergyBins * LogGrid)
               ELSE NaN,      \* std::log10 of a bound that is not positive
         y |-> self.fNeutronSpectrum[k]]]]

\* RunAction::WriteResults on the directory dir: each file is written when
\* its stream opens (edepOpens, specOpens), and skipped otherwise.
WriteResults(self, dir, edepOpens, specOpens) ==
    [edep_profile |-> IF edepOpens THEN EdepProfile(self) ELSE dir.edep_profile,
     neutron_spectrum |-> IF specOpens THEN NeutronSpectrumFile(self)
                          ELSE dir.neutron_spectrum]

\* What RunAction::WriteResults prints to G4cout / G4cerr, or throws, when a
\* stream did not open: nothing; the block of that file is skipped.
WriteResultsReports(edepOpens, specOpens) == << >>

\* -------------------------------------------------------- SteppingAction
\* What UserSteppingAction reads of a G4Step: the total energy deposit, z of
\* the pre-step point, the particle name, the material of the post-step
\* volume ("null": no post-step volume) and the track's kinetic energy.
StepOf(edep, z, particle, postVol, ekin) ==
    [edep |-> edep, z |-> z, particle |-> particle, postVol |-> postVol,
     ekin |-> ekin]

\* A slip: the exit check made only when the step deposited nothing.
SteppingActionElseIf(self, step) ==
    IF step.edep > 0
    THEN AddEdep(self, GetZBin(self, step.z), step.edep)
    ELSE IF step.particle = "neutron"
            /\ (step.postVol = "null" \/ step.postVol = "G4_Galactic")
         THEN AddNeutronExit(self, step.ekin)
         ELSE self

\* A slip: the exit of any particle counted, the particle name not checked.
SteppingActionAnyParticle(self, step) ==
    LET afterEdep ==
            IF step.edep > 0
            THEN AddEdep(self, GetZBin(self, step.z), step.edep)
            ELSE self
    IN  IF step.postVol = "null" \/ step.postVol = "G4_Galactic"
        THEN AddNeutronExit(afterEdep, step.ekin)
        ELSE afterEdep

\* SteppingAction::UserSteppingAction on the RunAction it is bound to.
SteppingAction(self, step) ==
    LET afterEdep ==
            IF step.edep > 0
            THEN AddEdep(self, GetZBin(self, step.z), step.edep)
            ELSE self
    IN  IF step.particle = "neutron"
           /\ (step.postVol = "null" \/ step.postVol = "G4_Galactic")
        THEN AddNeutronExit(afterEdep, step.ekin)
        ELSE afterEdep

\* ------------------------------------------------------------------ state
VARIABLES
    mode,           \* "serial" or "mt": the run manager the factory created
    runAction,      \* context -> the fields of its RunAction
    phase,          \* context -> "built", "running" or "ended"
    numberOfEvent,  \* context -> events recorded in its G4Run
    outputDir,      \* the two files of the output directory
    delivered,      \* callbacks (calls) delivered so far
    addedEdep,      \* context -> (bin -> energy of the in-range AddEdep calls)
    addedExit,      \* context -> (bin -> number of the in-range AddNeutronExit calls)
    pc,             \* caller -> its place in AddEdep / AddNeutronExit
    frame,          \* caller -> the arguments and locals of its call
    answer,         \* the last value GetZBin / GetEnergyBin returned
    neutrons        \* track -> the volume it is in and the exits counted for it

runVars == <<mode, runAction, phase, numberOfEvent, outputDir, delivered,
             addedEdep, addedExit>>
callVars == <<pc, frame>>
vars == <<mode, runAction, phase, numberOfEvent, outputDir, delivered,
          addedEdep, addedExit, pc, frame, answer, neutrons>>

Master == 0
Workers == 1..NWorkers

\* The contexts that own a RunAction: BuildForMaster makes the master's and
\* Build one per worker thread; a serial run calls Build alone, and its one
\* RunAction is the master's (IsMaster() is true there).
Contexts == IF mode = "serial" THEN {Master} ELSE {Master} \cup Workers
\* The contexts whose SteppingAction is called.
StepContexts == IF mode = "serial" THEN {Master} ELSE Workers

\* A slip: every context taken for the master.
IsMasterEverywhere(c) == c \in {Master} \cup Workers

IsMaster(c) == c = Master

RECURSIVE SumOver(_, _)
\* The sum of f[c] over c in S.
SumOver(S, f) ==
    IF S = {} THEN 0
    ELSE LET c == CHOOSE x \in S : TRUE
         IN  f[c] + SumOver(S \ {c}, f)

\* G4Run::GetNumberOfEvent: a worker's run counts its own events, the
\* master's run of a multithreaded run holds the workers' merged count.
GetNumberOfEvent(c) ==
    IF mode = "mt" /\ c = Master THEN SumOver(Workers, numberOfEvent)
    ELSE numberOfEvent[c]

\* A bin -> total map with a finite domain: lookup and increment.
Total(f, b) == IF b \in DOMAIN f THEN f[b] ELSE 0
Bump(f, b, x) ==
    IF b \in DOMAIN f THEN [f EXCEPT ![b] = @ + x] ELSE (b :> x) @@ f

NoCalls == << >>
NoAnswer == [fn |-> "none"]

\* ----------------------------------------------------------------- inputs
\* The steps delivered to UserSteppingAction: <<deposit in MeV, z>> of no
\* deposit, of deposits inside the default z range and of one at fZMax; and
\* <<particle, post-step material, kinetic energy>> of tracks that stay, that
\* leave the world and that enter vacuum, inside and outside the default
\* energy range.
Steps ==
    LET zMax == 2 * cm * ZGrid
        deposits == {<<0, 1>>, <<1, 1>>, <<2, zMax - 1>>, <<1, zMax>>}
        tracks == {<<"gamma", "null", EPos(0)>>,
                   <<"neutron", "G4_Fe", EPos(0)>>,
                   <<"neutron", "G4_Galactic", EPos(0)>>,
                   <<"neutron", "null", EPos(0)>>,
                   <<"neutron", "null", EZero>>,
                   <<"neutron", "null", EPos(-8 * LogGrid - 1)>>,
                   <<"neutron", "null", EPos(4 * LogGrid)>>}
    IN  {StepOf(d[1], d[2], t[1], t[2], t[3]) : d \in deposits, t \in tracks}

\* ------------------------------------------------------------------- run
InitRun ==
    /\ mode \in {"serial", "mt"}
    /\ runAction = [c \in Contexts |-> RunActionCtor]
    /\ phase = [c \in Contexts |-> "built"]
    /\ numberOfEvent = [c \in Contexts |-> 0]
    /\ outputDir = [edep_profile |-> NoFile, neutron_spectrum |-> NoFile]
    /\ delivered = 0
    /\ addedEdep = [c \in Contexts |-> NoCalls]
    /\ addedExit = [c \in Contexts |-> NoCalls]

Init ==
    /\ InitRun
    /\ pc = << >>
    /\ frame = << >>
    /\ answer = NoAnswer
    /\ neutrons = << >>

\* RunAction::BeginOfRunAction of context c. The master's run starts before
\* the worker threads do.
BeginOfRunAction(c) ==
    /\ phase[c] = "built"
    /\ c # Master => phase[Master] = "running"
    /\ runAction' = [runAction EXCEPT ![c] = BeginOfRun(@)]
    /\ phase' = [phase EXCEPT ![c] = "running"]
    /\ UNCHANGED <<neutrons, mode, numberOfEvent, outputDir, delivered, addedEdep,
                   addedExit, pc, frame, answer>>

\* The effect of SteppingAction::UserSteppingAction of context c on one
\* step, by the thread that owns c. After the last step of an event
\* (endsEvent) the engine records the event in the G4Run of c.
Stepping(c, step, endsEvent) ==
    /\ phase[c] = "running"
    /\ runAction' = [runAction EXCEPT ![c] = SteppingAction(@, step)]
    /\ delivered' = delivered + 1
    /\ LET self == runAction[c]
           zBin == GetZBin(self, step.z)
           eBin == GetEnergyBin(self, step.ekin)
           deposits == step.edep > 0 /\ zBin >= 0 /\ zBin < self.fZBins
           exits == /\ step.particle = "neutron"
                    /\ step.postVol \in {"null", "G4_Galactic"}
                    /\ eBin >= 0 /\ eBin < self.fEnergyBins
       IN  /\ addedEdep' = IF deposits
                           THEN [addedEdep EXCEPT ![c] = Bump(@, zBin, step.edep)]
                           ELSE addedEdep
           /\ addedExit' = IF exits
                           THEN [addedExit EXCEPT ![c] = Bump(@, eBin, 1)]
                           ELSE addedExit
    /\ numberOfEvent' = IF endsEvent
                        THEN [numberOfEvent EXCEPT ![c] = @ + 1]
                        ELSE numberOfEvent
    /\ UNCHANGED <<mode, phase, outputDir, pc, frame>>

\* SteppingAction::UserSteppingAction, called by the engine during a run.
UserSteppingAction(c, step, endsEvent) ==
    /\ delivered < MaxSteps
    /\ Stepping(c, step, endsEvent)
    /\ UNCHANGED <<answer, neutrons>>

\* A slip: no check of the number of events.
EndOfRunWritesEmptyRun(self, nofEvents, isMaster, dir, edepOpens, specOpens) ==
    IF isMaster THEN WriteResults(self, dir, edepOpens, specOpens)
    ELSE dir

\* RunAction::EndOfRunAction of self for a run of nofEvents events: what it
\* leaves in the output directory.
EndOfRun(self, nofEvents, isMaster, dir, edepOpens, specOpens) ==
    IF nofEvents = 0 THEN dir
    ELSE IF isMaster THEN WriteResults(self, dir, edepOpens, specOpens)
    ELSE dir

\* RunAction::EndOfRunAction of context c. The master's is called after
\* every worker has ended its run (the engine's run barrier).
EndOfRunAction(c) ==
    /\ phase[c] = "running"
    /\ (mode = "mt" /\ c = Master) => \A w \in Workers : phase[w] = "ended"
    /\ \E edepOpens \in BOOLEAN, specOpens \in BOOLEAN :
          outputDir' = EndOfRun(runAction[c], GetNumberOfEvent(c), IsMaster(c),
                                outputDir, edepOpens, specOpens)
    /\ phase' = [phase EXCEPT ![c] = "ended"]
    /\ UNCHANGED <<neutrons, mode, runAction, numberOfEvent, delivered, addedEdep,
                   addedExit, pc, frame, answer>>

Next ==
    \/ \E c \in Contexts : BeginOfRunAction(c)
    \/ \E c \in StepContexts : \E step \in Steps, endsEvent \in BOOLEAN :
          UserSteppingAction(c, step, endsEvent)
    \/ \E c \in Contexts : EndOfRunAction(c)

Spec == Init /\ [][Next]_vars

\* ------------------------------------------------- claims about the run
\* What the two files hold for bin k - 1, when they were written.
WrittenEdep(k) == outputDir.edep_profile.lines[k].y
WrittenCount(k) == outputDir.neutron_spectrum.lines[k].y

\* The sum, over the contexts that accumulate, of element k of a vector.
WorkersEdep(k) == SumOver(StepContexts, [c \in Contexts |-> runAction[c].fEdepHist[k]])
WorkersCount(k) ==
    SumOver(StepContexts, [c \in Contexts |-> runAction[c].fNeutronSpectrum[k]])

\* C1: at the end of a run the histograms handed to the writer are the
\* element-wise sum of the workers' histograms: every written deposit bin
\* (in GeV) is the sum of that bin over all worker accumulators, and every
\* written exit bin is the sum of that bin's counts.
C1_WrittenIsSumOfWorkers ==
    /\ outputDir.edep_profile.exists =>
         \A k \in DOMAIN outputDir.edep_profile.lines :
            WrittenEdep(k) = Rat(WorkersEdep(k), GeV)
    /\ outputDir.neutron_spectrum.exists =>
         \A k \in DOMAIN outputDir.neutron_spectrum.lines :
            WrittenCount(k) = WorkersCount(k)

\* The run's step events, bin by bin, whatever worker received them.
EventsEdep(b) == SumOver(StepContexts, [c \in Contexts |-> Total(addedEdep[c], b)])
EventsCount(b) == SumOver(StepContexts, [c \in Contexts |-> Total(addedExit[c], b)])

\* C2: the totals written at the end of a run depend on the multiset of step
\* events alone, not on how many workers shared them: a run of one worker
\* writes each bin's total over all events, so every run does.
C2_WrittenIsTotalOfEvents ==
    /\ outputDir.edep_profile.exists =>
         \A k \in DOMAIN outputDir.edep_profile.lines :
            WrittenEdep(k) = Rat(EventsEdep(k - 1), GeV)
    /\ outputDir.neutron_spectrum.exists =>
         \A k \in DOMAIN outputDir.neutron_spectrum.lines :
            WrittenCount(k) = EventsCount(k - 1)

\* The AddEdep and AddNeutronExit calls tried on an accumulator.
EdepCalls ==
    [fn : {"AddEdep"}, zBin : {-1, 0, 1, RunActionCtor.fZBins - 1, RunActionCtor.fZBins},
     edep : {1, 2}]
ExitCalls ==
    [fn : {"AddNeutronExit"},
     energy : {EZero, ENeg, EPos(-8 * LogGrid - 1), EPos(-8 * LogGrid), EPos(0),
               EPos(4 * LogGrid - 1), EPos(4 * LogGrid)}]

\* The accumulator after one of these calls.
Apply(self, call) ==
    IF call.fn = "AddEdep" THEN AddEdep(self, call.zBin, call.edep)
    ELSE AddNeutronExit(self, call.energy)

EndsRun(c) == c \in Contexts /\ phase[c] = "running" /\ phase'[c] = "ended"

\* C11: a run of zero events writes nothing. EndOfRunAction of a context
\* whose run holds no event, the master or a worker, leaves both files of the
\* output directory as they were, and returns.
C11_ZeroEventsNoOutput ==
    [][\A c \in {Master} \cup Workers :
         (EndsRun(c) /\ GetNumberOfEvent(c) = 0) => outputDir' = outputDir]_vars

\* C11's case: a multithreaded run whose steps ended no event is over, in
\* every context, and the output directory holds no file.
C11_Witness ==
    /\ mode = "mt" /\ \A c \in Contexts : phase[c] = "ended"
    /\ delivered > 0 /\ GetNumberOfEvent(Master) = 0
    /\ ~outputDir.edep_profile.exists /\ ~outputDir.neutron_spectrum.exists

\* C12: the output directory changes only in the master's EndOfRunAction,
\* which a run calls once; EndOfRunAction of a worker never writes.
C12_OnlyMasterWritesOnce ==
    [][outputDir' # outputDir => EndsRun(Master)]_vars

\* C12's case: every worker of a multithreaded run recorded an event and had
\* its own EndOfRunAction, and the files were written.
C12_Witness ==
    /\ mode = "mt" /\ \A c \in Contexts : phase[c] = "ended"
    /\ \A w \in Workers : numberOfEvent[w] > 0
    /\ outputDir.edep_profile.exists /\ outputDir.neutron_spectrum.exists

\* ------------------------------------------- one RunAction, called directly
\* The owner of the master's RunAction of a serial run calls AddEdep,
\* AddNeutronExit and UserSteppingAction, one call after the other; answer
\* holds the call that returned last.
CallAddEdep(call) ==
    /\ phase[Master] = "running"
    /\ delivered < MaxCalls
    /\ runAction' = [runAction EXCEPT ![Master] = AddEdep(@, call.zBin, call.edep)]
    /\ delivered' = delivered + 1
    /\ answer' = call
    /\ addedEdep' = IF call.zBin >= 0 /\ call.zBin < runAction[Master].fZBins
                    THEN [addedEdep EXCEPT ![Master] = Bump(@, call.zBin, call.edep)]
                    ELSE addedEdep
    /\ UNCHANGED <<neutrons, mode, phase, numberOfEvent, outputDir, addedExit, pc, frame>>

CallAddNeutronExit(call) ==
    /\ phase[Master] = "running"
    /\ delivered < MaxCalls
    /\ runAction' = [runAction EXCEPT ![Master] = AddNeutronExit(@, call.energy)]
    /\ delivered' = delivered + 1
    /\ answer' = call
    /\ LET eBin == GetEnergyBin(runAction[Master], call.energy)
       IN  addedExit' = IF eBin >= 0 /\ eBin < runAction[Master].fEnergyBins
                        THEN [addedExit EXCEPT ![Master] = Bump(@, eBin, 1)]
                        ELSE addedExit
    /\ UNCHANGED <<neutrons, mode, phase, numberOfEvent, outputDir, addedEdep, pc, frame>>

CallUserSteppingAction(step) ==
    /\ delivered < MaxCalls
    /\ Stepping(Master, step, FALSE)
    /\ answer' = [fn |-> "UserSteppingAction", step |-> step]
    /\ UNCHANGED neutrons

InitCalls == Init /\ mode = "serial"

NextCalls ==
    \/ BeginOfRunAction(Master)
    \/ \E call \in EdepCalls : CallAddEdep(call)
    \/ \E call \in ExitCalls : CallAddNeutronExit(call)
    \/ \E step \in Steps : CallUserSteppingAction(step)

SpecCalls == InitCalls /\ [][NextCalls]_vars

\* The transition is the return of a call named fn.
Returns(fn) == delivered' = delivered + 1 /\ answer'.fn = fn

\* The vector v with x added to element i (element i of a std::vector).
Plus(v, i, x) == [k \in DOMAIN v |-> IF k = i + 1 THEN v[k] + x ELSE v[k]]

\* C7: AddEdep(zBin, edep) with 0 <= zBin < fZBins adds exactly edep to
\* fEdepHist[zBin] and changes nothing else: no other deposit bin, no bin of
\* fNeutronSpectrum, no field of the configuration.
C7_AddEdepAddsToItsBin ==
    [][(Returns("AddEdep") /\ answer'.zBin >= 0
            /\ answer'.zBin < runAction[Master].fZBins)
        => runAction'[Master] =
             [runAction[Master] EXCEPT
                !.fEdepHist = Plus(@, answer'.zBin, answer'.edep)]]_vars

\* C7's case: a call AddEdep(0, 2) has returned and bin 0 holds its energy.
C7_Witness ==
    /\ answer.fn = "AddEdep" /\ answer.zBin = 0 /\ answer.edep = 2
    /\ runAction[Master].fEdepHist[1] >= 2

\* C8: AddNeutronExit with an energy whose bin b is valid adds exactly 1 to
\* fNeutronSpectrum[b] and changes no other bin of it and no bin of
\* fEdepHist.
C8_AddNeutronExitCountsOne ==
    [][\A b \in 0..(runAction[Master].fEnergyBins - 1) :
         (Returns("AddNeutronExit")
            /\ GetEnergyBin(runAction[Master], answer'.energy) = b)
         => runAction'[Master] =
              [runAction[Master] EXCEPT !.fNeutronSpectrum = Plus(@, b, 1)]]_vars

\* C8's case: an exit at fEMin has returned and bin 0 has counted it.
C8_Witness ==
    /\ answer.fn = "AddNeutronExit" /\ answer.energy = runAction[Master].fEMin
    /\ runAction[Master].fNeutronSpectrum[1] >= 1

\* A bin outside [0, n).
OutOfRange(bin, n) == bin < 0 \/ bin >= n

\* C9: out-of-range lookups are dropped. AddEdep with a bin outside
\* [0, fZBins), AddNeutronExit with an energy <= 0, below fEMin or >= fEMax,
\* and the deposit of a step whose z is outside [fZMin, fZMax) (z = fZMax
\* included) leave the histograms as they were; the call returns.
C9_OutOfRangeIsDropped ==
    [][LET self == runAction[Master]
       IN  /\ (Returns("AddEdep") /\ OutOfRange(answer'.zBin, self.fZBins))
                => runAction' = runAction
           /\ (Returns("AddNeutronExit")
                /\ (answer'.energy.sign <= 0 \/ ELess(answer'.energy, self.fEMin)
                      \/ ~ELess(answer'.energy, self.fEMax)))
                => runAction' = runAction
           /\ (Returns("UserSteppingAction")
                /\ (answer'.step.z < self.fZMin \/ answer'.step.z >= self.fZMax))
                => runAction'[Master].fEdepHist = self.fEdepHist]_vars

\* C9's case: AddEdep(-1, edep), the sentinel of GetZBin, has returned after
\* an earlier deposit, which is still all the histogram holds.
C9_Witness ==
    /\ answer.fn = "AddEdep" /\ answer.zBin = -1
    /\ delivered = 2
    /\ addedEdep[Master] # NoCalls
    /\ \A b \in DOMAIN addedEdep[Master] :
          runAction[Master].fEdepHist[b + 1] = addedEdep[Master][b]

\* C10: the deposit check and the exit check of UserSteppingAction are
\* independent. One step of a neutron that deposits energy at a z in range
\* and leaves the world or enters G4_Galactic with a kinetic energy in range
\* adds its deposit to fEdepHist and one count to fNeutronSpectrum.
C10_DepositAndExitBothRecorded ==
    [][LET self == runAction[Master]
           step == answer'.step
           zBin == GetZBin(self, step.z)
           eBin == GetEnergyBin(self, step.ekin)
       IN  (/\ Returns("UserSteppingAction")
            /\ step.particle = "neutron"
            /\ step.postVol \in {"null", "G4_Galactic"}
            /\ step.edep > 0
            /\ ~OutOfRange(zBin, self.fZBins)
            /\ ~OutOfRange(eBin, self.fEnergyBins))
           => /\ runAction'[Master].fEdepHist = Plus(self.fEdepHist, zBin, step.edep)
              /\ runAction'[Master].fNeutronSpectrum
                   = Plus(self.fNeutronSpectrum, eBin, 1)]_vars

\* C10's case: the one step delivered so far is such a step, and both
\* histograms hold it.
C10_Witness ==
    /\ answer.fn = "UserSteppingAction" /\ delivered = 1
    /\ answer.step.particle = "neutron" /\ answer.step.edep > 0
    /\ addedEdep[Master] # NoCalls /\ addedExit[Master] # NoCalls
    /\ \E k \in DOMAIN runAction[Master].fEdepHist :
          runAction[Master].fEdepHist[k] = answer.step.edep
    /\ \E k \in DOMAIN runAction[Master].fNeutronSpectrum :
          runAction[Master].fNeutronSpectrum[k] = 1

\* C17: UserSteppingAction changes a histogram only under its own guard. A
\* step that deposited no energy leaves fEdepHist as it was; a step of a
\* particle that is no neutron, or whose post-step volume exists and is not
\* of G4_Galactic, leaves fNeutronSpectrum as it was.
C17_OnlyUnderItsGuard ==
    [][LET step == answer'.step
       IN  Returns("UserSteppingAction") =>
              /\ step.edep = 0 =>
                    runAction'[Master].fEdepHist = runAction[Master].fEdepHist
              /\ (\/ step.particle # "neutron"
                  \/ step.postVol \notin {"null", "G4_Galactic"}) =>
                    runAction'[Master].fNeutronSpectrum
                       = runAction[Master].fNeutronSpectrum]_vars

\* C17's case: the one step delivered so far is a gamma that deposited
\* energy on its way out of the world; the deposit is recorded and no exit.
C17_Witness ==
    /\ answer.fn = "UserSteppingAction" /\ delivered = 1
    /\ answer.step.particle = "gamma" /\ answer.step.postVol = "null"
    /\ answer.step.edep > 0
    /\ addedEdep[Master] # NoCalls
    /\ runAction[Master].fNeutronSpectrum = Zeros(runAction[Master].fEnergyBins)

\* ------------------------------------- one RunAction, called concurrently
\* NCallers threads call AddEdep and AddNeutronExit of the master's
\* RunAction of a serial run. A call is the range check, the lock_guard on
\* fMutex, the load and the store of `+=`, and the release of the lock as
\* the guard goes out of scope.
Callers == 1..NCallers
NoFrame == [fn |-> "none"]

\* A slip: no lock taken.
MutexIgnored(self) == TRUE

\* The calls the threads make: two bins and the sentinel, two energies.
ConcEdepCalls == {call \in EdepCalls : call.zBin \in {-1, 0, 1}}
ConcExitCalls ==
    {call \in ExitCalls : call.energy \in {EZero, EPos(-8 * LogGrid), EPos(0)}}

\* std::lock_guard<std::mutex> lock(fMutex) returns when the mutex is free.
MutexFree(self) == self.fMutex = 0

\* AddEdep up to its lock: a bin out of range returns at once.
EnterAddEdep(t, call) ==
    /\ pc[t] = "idle"
    /\ phase[Master] = "running"
    /\ delivered < MaxCalls
    /\ delivered' = delivered + 1
    /\ IF call.zBin >= 0 /\ call.zBin < runAction[Master].fZBins
       THEN /\ pc' = [pc EXCEPT ![t] = "edepLock"]
            /\ frame' = [frame EXCEPT ![t] = call]
            /\ addedEdep' = [addedEdep EXCEPT ![Master] = Bump(@, call.zBin, call.edep)]
       ELSE UNCHANGED <<pc, frame, addedEdep>>
    /\ UNCHANGED <<neutrons, mode, runAction, phase, numberOfEvent, outputDir, addedExit,
                   answer>>

AddEdepLock(t) ==
    /\ pc[t] = "edepLock"
    /\ MutexFree(runAction[Master])
    /\ runAction' = [runAction EXCEPT ![Master].fMutex = t]
    /\ pc' = [pc EXCEPT ![t] = "edepLoad"]
    /\ UNCHANGED <<neutrons, mode, phase, numberOfEvent, outputDir, delivered, addedEdep,
                   addedExit, frame, answer>>

\* fEdepHist[zBin] += edep: the load.
AddEdepLoad(t) ==
    /\ pc[t] = "edepLoad"
    /\ frame' = [frame EXCEPT ![t] =
                   [fn |-> "AddEdep", zBin |-> @.zBin, edep |-> @.edep,
                    tmp |-> runAction[Master].fEdepHist[@.zBin + 1]]]
    /\ pc' = [pc EXCEPT ![t] = "edepStore"]
    /\ UNCHANGED <<neutrons, mode, runAction, phase, numberOfEvent, outputDir, delivered,
                   addedEdep, addedExit, answer>>

\* fEdepHist[zBin] += edep: the store; the lock is released on return.
AddEdepStore(t) ==
    /\ pc[t] = "edepStore"
    /\ runAction' = [runAction EXCEPT
                       ![Master].fEdepHist[frame[t].zBin + 1] =
                           frame[t].tmp + frame[t].edep,
                       ![Master].fMutex = 0]
    /\ pc' = [pc EXCEPT ![t] = "idle"]
    /\ frame' = [frame EXCEPT ![t] = NoFrame]
    /\ UNCHANGED <<neutrons, mode, phase, numberOfEvent, outputDir, delivered, addedEdep,
                   addedExit, answer>>

\* AddNeutronExit up to its lock: GetEnergyBin and the range check.
EnterAddNeutronExit(t, call) ==
    /\ pc[t] = "idle"
    /\ phase[Master] = "running"
    /\ delivered < MaxCalls
    /\ delivered' = delivered + 1
    /\ LET bin == GetEnergyBin(runAction[Master], call.energy)
       IN  IF bin >= 0 /\ bin < runAction[Master].fEnergyBins
           THEN /\ pc' = [pc EXCEPT ![t] = "exitLock"]
                /\ frame' = [frame EXCEPT ![t] = [fn |-> "AddNeutronExit", bin |-> bin]]
                /\ addedExit' = [addedExit EXCEPT ![Master] = Bump(@, bin, 1)]
           ELSE UNCHANGED <<pc, frame, addedExit>>
    /\ UNCHANGED <<neutrons, mode, runAction, phase, numberOfEvent, outputDir, addedEdep,
                   answer>>

AddNeutronExitLock(t) ==
    /\ pc[t] = "exitLock"
    /\ MutexFree(runAction[Master])
    /\ runAction' = [runAction EXCEPT ![Master].fMutex = t]
    /\ pc' = [pc EXCEPT ![t] = "exitLoad"]
    /\ UNCHANGED <<neutrons, mode, phase, numberOfEvent, outputDir, delivered, addedEdep,
                   addedExit, frame, answer>>

\* fNeutronSpectrum[bin] += 1.0: the load.
AddNeutronExitLoad(t) ==
    /\ pc[t] = "exitLoad"
    /\ frame' = [frame EXCEPT ![t] =
                   [fn |-> "AddNeutronExit", bin |-> @.bin,
                    tmp |-> runAction[Master].fNeutronSpectrum[@.bin + 1]]]
    /\ pc' = [pc EXCEPT ![t] = "exitStore"]
    /\ UNCHANGED <<neutrons, mode, runAction, phase, numberOfEvent, outputDir, delivered,
                   addedEdep, addedExit, answer>>

\* fNeutronSpectrum[bin] += 1.0: the store; the lock is released on return.
AddNeutronExitStore(t) ==
    /\ pc[t] = "exitStore"
    /\ runAction' = [runAction EXCEPT
                       ![Master].fNeutronSpectrum[frame[t].bin + 1] = frame[t].tmp + 1,
                       ![Master].fMutex = 0]
    /\ pc' = [pc EXCEPT ![t] = "idle"]
    /\ frame' = [frame EXCEPT ![t] = NoFrame]
    /\ UNCHANGED <<neutrons, mode, phase, numberOfEvent, outputDir, delivered, addedEdep,
                   addedExit, answer>>

InitConc ==
    /\ InitRun
    /\ mode = "serial"
    /\ pc = [t \in Callers |-> "idle"]
    /\ frame = [t \in Callers |-> NoFrame]
    /\ answer = NoAnswer
    /\ neutrons = << >>

NextConc ==
    \/ BeginOfRunAction(Master)
    \/ \E t \in Callers :
         \/ \E call \in ConcEdepCalls : EnterAddEdep(t, call)
         \/ AddEdepLock(t)
         \/ AddEdepLoad(t)
         \/ AddEdepStore(t)
         \/ \E call \in ConcExitCalls : EnterAddNeutronExit(t, call)
         \/ AddNeutronExitLock(t)
         \/ AddNeutronExitLoad(t)
         \/ AddNeutronExitStore(t)

SpecConc == InitConc /\ [][NextConc]_vars

\* The energy of the AddEdep calls, and the number of the AddNeutronExit
\* calls, that have passed the range check for bin b and not stored yet.
PendingEdep(b) ==
    SumOver(Callers,
            [t \in Callers |->
               IF pc[t] \in {"edepLock", "edepLoad", "edepStore"} /\ frame[t].zBin = b
               THEN frame[t].edep ELSE 0])
PendingExit(b) ==
    SumOver(Callers,
            [t \in Callers |->
               IF pc[t] \in {"exitLock", "exitLoad", "exitStore"} /\ frame[t].bin = b
               THEN 1 ELSE 0])

\* C4: concurrent AddEdep / AddNeutronExit calls on one accumulator lose no
\* update. Every deposit bin holds its value at run start (0) plus the
\* energies of the calls made for it, less those of calls still in flight;
\* every exit bin holds the number of calls that landed in it, less those in
\* flight. Once every call has returned, the bins hold exactly the sums and
\* the counts.
C4_NoLostUpdate ==
    phase[Master] = "running" =>
       /\ \A k \in DOMAIN runAction[Master].fEdepHist :
             runAction[Master].fEdepHist[k] + PendingEdep(k - 1)
                = Total(addedEdep[Master], k - 1)
       /\ \A k \in DOMAIN runAction[Master].fNeutronSpectrum :
             runAction[Master].fNeutronSpectrum[k] + PendingExit(k - 1)
                = Total(addedExit[Master], k - 1)

\* C4's case: two threads are inside AddEdep for the same bin at once, one
\* between its load and its store, the other at the lock.
C4_Witness ==
    \E t \in Callers, u \in Callers :
       /\ pc[t] = "edepStore" /\ pc[u] = "edepLock"
       /\ frame[t].zBin = frame[u].zBin

\* ------------------------------------------- one RunAction, configured
\* Before a run, the master's RunAction of a serial run is configured with
\* its setters and asked for bins; answer holds the last value returned, and
\* a setter discards it.
ZBinsInputs == {0, 1, 3, RunActionCtor.fZBins}
ZRangeInputs == {<<0, 2 * cm * ZGrid>>, <<0, 4>>, <<-3, 5>>, <<4, 4>>}
ZQueries == (-4..9) \cup {2 * cm * ZGrid - 1, 2 * cm * ZGrid, 2 * cm * ZGrid + 1}
EnergyBinsInputs == {0, 1, 2, RunActionCtor.fEnergyBins}
ERangeInputs ==
    {<<EPos(-8 * LogGrid), EPos(4 * LogGrid)>>, <<EPos(-LogGrid), EPos(LogGrid)>>,
     <<EPos(1), EPos(7)>>, <<EPos(2), EPos(2)>>}
EQueries ==
    {EZero, ENeg} \cup {EPos(lg) : lg \in (-3..8) \cup {-8 * LogGrid - 1, -8 * LogGrid,
                                                       4 * LogGrid - 1, 4 * LogGrid}}

CallSetZBins(n) ==
    /\ phase[Master] = "built"
    /\ runAction' = [runAction EXCEPT ![Master] = SetZBins(@, n)]
    /\ answer' = NoAnswer
    /\ UNCHANGED <<neutrons, mode, phase, numberOfEvent, outputDir, delivered, addedEdep,
                   addedExit, pc, frame>>

CallSetZRange(zmin, zmax) ==
    /\ phase[Master] = "built"
    /\ runAction' = [runAction EXCEPT ![Master] = SetZRange(@, zmin, zmax)]
    /\ answer' = NoAnswer
    /\ UNCHANGED <<neutrons, mode, phase, numberOfEvent, outputDir, delivered, addedEdep,
                   addedExit, pc, frame>>

CallSetEnergyBins(n) ==
    /\ phase[Master] = "built"
    /\ runAction' = [runAction EXCEPT ![Master] = SetEnergyBins(@, n)]
    /\ answer' = NoAnswer
    /\ UNCHANGED <<neutrons, mode, phase, numberOfEvent, outputDir, delivered, addedEdep,
                   addedExit, pc, frame>>

CallSetEnergyRange(emin, emax) ==
    /\ phase[Master] = "built"
    /\ runAction' = [runAction EXCEPT ![Master] = SetEnergyRange(@, emin, emax)]
    /\ answer' = NoAnswer
    /\ UNCHANGED <<neutrons, mode, phase, numberOfEvent, outputDir, delivered, addedEdep,
                   addedExit, pc, frame>>

CallGetZBin(z) ==
    /\ phase[Master] = "built"
    /\ answer' = [fn |-> "GetZBin", z |-> z, bin |-> GetZBin(runAction[Master], z)]
    /\ UNCHANGED <<neutrons, mode, runAction, phase, numberOfEvent, outputDir, delivered,
                   addedEdep, addedExit, pc, frame>>

CallGetEnergyBin(e) ==
    /\ phase[Master] = "built"
    /\ answer' = [fn |-> "GetEnergyBin", e |-> e,
                  bin |-> GetEnergyBin(runAction[Master], e)]
    /\ UNCHANGED <<neutrons, mode, runAction, phase, numberOfEvent, outputDir, delivered,
                   addedEdep, addedExit, pc, frame>>

InitBin == Init /\ mode = "serial"

NextBin ==
    \/ \E n \in ZBinsInputs : CallSetZBins(n)
    \/ \E r \in ZRangeInputs : CallSetZRange(r[1], r[2])
    \/ \E n \in EnergyBinsInputs : CallSetEnergyBins(n)
    \/ \E r \in ERangeInputs : CallSetEnergyRange(r[1], r[2])
    \/ \E z \in ZQueries : CallGetZBin(z)
    \/ \E e \in EQueries : CallGetEnergyBin(e)

SpecBin == InitBin /\ [][NextBin]_vars

\* bin = floor(num / den * n), for den > 0.
IsFloor(bin, num, den, n) == bin * den <= num * n /\ num * n < (bin + 1) * den

\* C5: GetZBin under a valid configuration (fZBins > 0, fZMin < fZMax). For
\* fZMin <= z < fZMax the result is floor((z - fZMin) / (fZMax - fZMin) *
\* fZBins) and lies in [0, fZBins); for z < fZMin or z >= fZMax, z = fZMax
\* included, it is -1.
C5_GetZBin ==
    LET self == runAction[Master]
    IN  (answer.fn = "GetZBin" /\ self.fZBins > 0 /\ self.fZMin < self.fZMax) =>
           IF self.fZMin <= answer.z /\ answer.z < self.fZMax
           THEN /\ IsFloor(answer.bin, answer.z - self.fZMin,
                           self.fZMax - self.fZMin, self.fZBins)
                /\ answer.bin >= 0 /\ answer.bin < self.fZBins
           ELSE answer.bin = -1

\* C5's case: under a configuration set with the setters, z = fZMax was
\* asked for, and answered with -1.
C5_Witness ==
    /\ answer.fn = "GetZBin" /\ answer.bin = -1
    /\ runAction[Master].fZBins = 3 /\ runAction[Master].fZMin = -3
    /\ answer.z = runAction[Master].fZMax

\* C6: GetEnergyBin under a valid configuration (fEnergyBins > 0,
\* 0 < fEMin < fEMax). The result is -1 exactly when e <= 0 or e < fEMin or
\* e >= fEMax; otherwise it is floor((log10(e) - log10(fEMin)) /
\* (log10(fEMax) - log10(fEMin)) * fEnergyBins) and lies in [0, fEnergyBins).
C6_GetEnergyBin ==
    LET self == runAction[Master]
        outside == \/ answer.e.sign <= 0
                   \/ ELess(answer.e, self.fEMin)
                   \/ ~ELess(answer.e, self.fEMax)
    IN  (/\ answer.fn = "GetEnergyBin" /\ self.fEnergyBins > 0
         /\ self.fEMin.sign = 1 /\ ELess(self.fEMin, self.fEMax)) =>
           /\ answer.bin = -1 <=> outside
           /\ ~outside =>
                /\ IsFloor(answer.bin, answer.e.lg - self.fEMin.lg,
                           self.fEMax.lg - self.fEMin.lg, self.fEnergyBins)
                /\ answer.bin >= 0 /\ answer.bin < self.fEnergyBins

\* C6's case: under a configuration set with the setters, an energy in the
\* last bin was asked for.
C6_Witness ==
    /\ answer.fn = "GetEnergyBin"
    /\ runAction[Master].fEnergyBins = 2 /\ runAction[Master].fEMin = EPos(1)
    /\ answer.bin = 1

\* ------------------------------------- consecutive runs of one RunAction
\* The master's RunAction of a serial application lives through run after
\* run; between two runs its owner may call the setters. delivered counts
\* the calls; addedEdep and addedExit hold what the current run added.
MaxOps == 5

RunZBinsInputs == {-1, 0, 2}
RunZRangeInputs == {<<0, 4>>, <<4, 4>>}
RunEnergyBinsInputs == {-1, 0, 2}
RunERangeInputs == {<<EPos(-2), EPos(2)>>, <<EPos(2), EPos(2)>>, <<EZero, EPos(2)>>}
\* A deposit in range, a neutron leaving the world, and both in one step.
RunSteps ==
    {StepOf(1, 1, "gamma", "G4_Fe", EPos(0)),
     StepOf(0, 1, "neutron", "null", EPos(0)),
     StepOf(2, 1, "neutron", "G4_Galactic", EPos(1))}

\* The invariant of the configuration.
ValidConfig(self) ==
    /\ self.fZBins > 0 /\ self.fEnergyBins > 0
    /\ self.fZMin < self.fZMax
    /\ self.fEMin.sign = 1 /\ ELess(self.fEMin, self.fEMax)

\* The values RunAction::GetEnergyBin can return. For fEMin <= 0 and an e
\* that passes the range check, std::log10(fEMin) is -inf or NaN, the
\* quotient is NaN, and the cast of a NaN to G4int is undefined: any G4int,
\* here one below the bins, the first bin, the last bin, and one above.
GetEnergyBinOutcomes(self, e) ==
    IF self.fEMin.sign = 1 THEN {GetEnergyBin(self, e)}
    ELSE IF e.sign <= 0 \/ ~ELess(e, self.fEMax) THEN {-1}
    ELSE {-1, 0, self.fEnergyBins - 1, self.fEnergyBins}

\* A setter called between two runs, or before the first.
Reconfigure(new) ==
    /\ phase[Master] \in {"built", "ended"}
    /\ delivered < MaxOps
    /\ delivered' = delivered + 1
    /\ runAction' = [runAction EXCEPT ![Master] = new]
    /\ answer' = [fn |-> "set"]
    /\ UNCHANGED <<neutrons, mode, phase, numberOfEvent, outputDir, addedEdep, addedExit,
                   pc, frame>>

RunSetZBins(n) == Reconfigure(SetZBins(runAction[Master], n))
RunSetZRange(zmin, zmax) == Reconfigure(SetZRange(runAction[Master], zmin, zmax))
RunSetEnergyBins(n) == Reconfigure(SetEnergyBins(runAction[Master], n))
RunSetEnergyRange(emin, emax) ==
    Reconfigure(SetEnergyRange(runAction[Master], emin, emax))

\* RunAction::BeginOfRunAction at the start of a run, the first or a later
\* one, with a new G4Run. std::vector::assign with a negative count, which
\* converts to a size above max_size(), throws std::length_error; nothing
\* catches it and the program ends ("aborted"), the vector left as it was.
RunBeginOfRunAction ==
    LET self == runAction[Master]
    IN  /\ phase[Master] \in {"built", "ended"}
        /\ delivered < MaxOps
        /\ delivered' = delivered + 1
        /\ IF self.fZBins < 0
           THEN /\ phase' = [phase EXCEPT ![Master] = "aborted"]
                /\ UNCHANGED runAction
           ELSE IF self.fEnergyBins < 0
           THEN /\ phase' = [phase EXCEPT ![Master] = "aborted"]
                /\ runAction' = [runAction EXCEPT
                                   ![Master].fEdepHist = BeginOfRun(self).fEdepHist]
           ELSE /\ phase' = [phase EXCEPT ![Master] = "running"]
                /\ runAction' = [runAction EXCEPT ![Master] = BeginOfRun(self)]
        /\ numberOfEvent' = [numberOfEvent EXCEPT ![Master] = 0]
        /\ addedEdep' = [addedEdep EXCEPT ![Master] = NoCalls]
        /\ addedExit' = [addedExit EXCEPT ![Master] = NoCalls]
        /\ answer' = [fn |-> "BeginOfRunAction"]
        /\ UNCHANGED <<neutrons, mode, outputDir, pc, frame>>

\* SteppingAction::UserSteppingAction during a run with a positive fEMin.
RunUserSteppingAction(step, endsEvent) ==
    /\ runAction[Master].fEMin.sign = 1
    /\ delivered < MaxOps
    /\ Stepping(Master, step, endsEvent)
    /\ answer' = [fn |-> "UserSteppingAction", step |-> step]
    /\ UNCHANGED neutrons

\* SteppingAction::UserSteppingAction during a run with fEMin <= 0: the bin
\* of an exit is one of GetEnergyBinOutcomes.
RunUserSteppingActionNaN(step, endsEvent) ==
    LET self == runAction[Master]
        zBin == GetZBin(self, step.z)
        afterEdep == IF step.edep > 0 THEN AddEdep(self, zBin, step.edep) ELSE self
        exiting == /\ step.particle = "neutron"
                   /\ step.postVol \in {"null", "G4_Galactic"}
    IN  /\ self.fEMin.sign # 1
        /\ phase[Master] = "running"
        /\ delivered < MaxOps
        /\ delivered' = delivered + 1
        /\ addedEdep' = IF step.edep > 0 /\ zBin >= 0 /\ zBin < self.fZBins
                        THEN [addedEdep EXCEPT ![Master] = Bump(@, zBin, step.edep)]
                        ELSE addedEdep
        /\ IF exiting
           THEN \E bin \in GetEnergyBinOutcomes(self, step.ekin) :
                   IF bin >= 0 /\ bin < self.fEnergyBins
                   THEN /\ runAction' = [runAction EXCEPT ![Master] =
                              [afterEdep EXCEPT !.fNeutronSpectrum[bin + 1] = @ + 1]]
                        /\ addedExit' = [addedExit EXCEPT ![Master] = Bump(@, bin, 1)]
                   ELSE /\ runAction' = [runAction EXCEPT ![Master] = afterEdep]
                        /\ UNCHANGED addedExit
           ELSE /\ runAction' = [runAction EXCEPT ![Master] = afterEdep]
                /\ UNCHANGED addedExit
        /\ numberOfEvent' = IF endsEvent
                            THEN [numberOfEvent EXCEPT ![Master] = @ + 1]
                            ELSE numberOfEvent
        /\ answer' = [fn |-> "UserSteppingAction", step |-> step]
        /\ UNCHANGED <<neutrons, mode, phase, outputDir, pc, frame>>

\* RunAction::EndOfRunAction at the end of a run.
RunEndOfRunAction ==
    /\ phase[Master] = "running"
    /\ delivered < MaxOps
    /\ delivered' = delivered + 1
    /\ \E edepOpens \in BOOLEAN, specOpens \in BOOLEAN :
          /\ outputDir' = EndOfRun(runAction[Master], GetNumberOfEvent(Master),
                                   IsMaster(Master), outputDir, edepOpens, specOpens)
          /\ answer' = [fn |-> "EndOfRunAction",
                        writes |-> GetNumberOfEvent(Master) # 0 /\ IsMaster(Master),
                        edepOpens |-> edepOpens, specOpens |-> specOpens,
                        reported |-> WriteResultsReports(edepOpens, specOpens)]
    /\ phase' = [phase EXCEPT ![Master] = "ended"]
    /\ UNCHANGED <<neutrons, mode, runAction, numberOfEvent, addedEdep, addedExit, pc, frame>>

InitRuns == Init /\ mode = "serial"

NextRuns ==
    \/ \E n \in RunZBinsInputs : RunSetZBins(n)
    \/ \E r \in RunZRangeInputs : RunSetZRange(r[1], r[2])
    \/ \E n \in RunEnergyBinsInputs : RunSetEnergyBins(n)
    \/ \E r \in RunERangeInputs : RunSetEnergyRange(r[1], r[2])
    \/ RunBeginOfRunAction
    \/ \E step \in RunSteps, endsEvent \in BOOLEAN : RunUserSteppingAction(step, endsEvent)
    \/ \E step \in RunSteps, endsEvent \in BOOLEAN :
          RunUserSteppingActionNaN(step, endsEvent)
    \/ RunEndOfRunAction

SpecRuns == InitRuns /\ [][NextRuns]_vars

\* C13: BeginOfRunAction rejects an invalid configuration: a run that is
\* under way, taking steps and about to write, has fZBins > 0,
\* fEnergyBins > 0, fZMin < fZMax and 0 < fEMin < fEMax.
C13_InvalidConfigRejected ==
    phase[Master] = "running" => ValidConfig(runAction[Master])

\* The transition is a BeginOfRunAction that returned.
StartsRun == phase[Master] # "running" /\ phase'[Master] = "running"

\* C15: BeginOfRunAction zeroes the accumulator whatever it held: right
\* after it fEdepHist is fZBins zeros and fNeutronSpectrum is fEnergyBins
\* zeros; and so, in every run of a sequence of runs, each bin holds what the
\* calls of that run added to it, nothing of an earlier run.
C15_BeginOfRunActionZeroes ==
    /\ [][StartsRun =>
            /\ runAction'[Master].fEdepHist = Zeros(runAction'[Master].fZBins)
            /\ Len(runAction'[Master].fEdepHist) = runAction[Master].fZBins
            /\ runAction'[Master].fNeutronSpectrum
                 = Zeros(runAction'[Master].fEnergyBins)
            /\ Len(runAction'[Master].fNeutronSpectrum)
                 = runAction[Master].fEnergyBins]_vars
    /\ [](phase[Master] \in {"running", "ended"} =>
            /\ \A k \in DOMAIN runAction[Master].fEdepHist :
                  runAction[Master].fEdepHist[k] = Total(addedEdep[Master], k - 1)
            /\ \A k \in DOMAIN runAction[Master].fNeutronSpectrum :
                  runAction[Master].fNeutronSpectrum[k]
                     = Total(addedExit[Master], k - 1))

\* C15's case: a run wrote a deposit to edep_profile.dat, and a later run
\* has begun on the same RunAction, whose vectors hold zeros again.
C15_Witness ==
    /\ phase[Master] = "running" /\ answer.fn = "BeginOfRunAction"
    /\ outputDir.edep_profile.exists
    /\ \E k \in DOMAIN outputDir.edep_profile.lines :
          outputDir.edep_profile.lines[k].y.num > 0
    /\ runAction[Master].fZBins > 0
    /\ runAction[Master].fEdepHist = Zeros(runAction[Master].fZBins)

\* C14: when a file of the output directory cannot be opened, WriteResults
\* reports the failure; the run ends as any other, and the vectors of the
\* RunAction are as they were before the write.
C14_WriteErrorReported ==
    [][(/\ EndsRun(Master) /\ answer'.fn = "EndOfRunAction" /\ answer'.writes
        /\ ~(answer'.edepOpens /\ answer'.specOpens))
       => /\ answer'.reported # << >>
          /\ phase'[Master] = "ended"
          /\ runAction' = runAction]_vars

\* A z column of edep_profile.dat, in cm, as a position: a rational number
\* of grid points.
ZOfColumn(x) == Rat(x.num * cm * ZGrid, x.den)
\* An energy column of neutron_spectrum.dat (log10 of a number of GeV) as a
\* kinetic energy: a rational lg.
EOfColumn(x) == Rat(x.num * LogGrid + 3 * LogGrid * x.den, x.den)

\* RunAction::GetZBin of a position between grid points: the same
\* computation on the grid refined by z.den.
GetZBinBetween(self, z) ==
    GetZBin([self EXCEPT !.fZMin = @ * z.den, !.fZMax = @ * z.den], z.num)
\* RunAction::GetEnergyBin of an energy between grid points, for positive
\* bounds.
GetEnergyBinBetween(self, e) ==
    GetEnergyBin([self EXCEPT !.fEMin = EPos(@.lg * e.den),
                              !.fEMax = EPos(@.lg * e.den)], EPos(e.num))

\* C16: under a valid configuration, the bin centre WriteResults writes on
\* line i of edep_profile.dat, read back as a position, is in bin i of
\* GetZBin; and the centre it writes on line i of neutron_spectrum.dat, read
\* back as an energy, is in bin i of GetEnergyBin.
C16_BinCentersRoundTrip ==
    LET self == runAction[Master]
    IN  (answer.fn = "EndOfRunAction" /\ answer.writes /\ ValidConfig(self)) =>
           /\ answer.edepOpens =>
                \A k \in DOMAIN outputDir.edep_profile.lines :
                   GetZBinBetween(self, ZOfColumn(outputDir.edep_profile.lines[k].x))
                      = k - 1
           /\ answer.specOpens =>
                \A k \in DOMAIN outputDir.neutron_spectrum.lines :
                   GetEnergyBinBetween(self,
                        EOfColumn(outputDir.neutron_spectrum.lines[k].x)) = k - 1

\* C16's case: both files were written under a configuration made with the
\* setters, with more than one bin each.
C16_Witness ==
    /\ answer.fn = "EndOfRunAction" /\ answer.writes
    /\ answer.edepOpens /\ answer.specOpens
    /\ ValidConfig(runAction[Master])
    /\ runAction[Master].fZMax = 4
    /\ Len(outputDir.edep_profile.lines) = runAction[Master].fZBins
    /\ Len(outputDir.neutron_spectrum.lines) = 2

\* ------------------------------- any sequence of the public operations
\* The owner of a RunAction calls its public operations in any order, the
\* setters during a run and AddEdep before BeginOfRunAction included. answer
\* holds the last call and the vector elements it touched: the largest index
\* per vector, with the size of the vector at that time.
MaxSequence == 4

OpZBinsInputs == {0, 2}
OpZRangeInputs == {<<0, 4>>}
OpEnergyBinsInputs == {0, 2}
OpERangeInputs == {<<EPos(-2), EPos(2)>>, <<EZero, EPos(2)>>}
OpEdepCalls == {[zBin |-> 0, edep |-> 1], [zBin |-> 1, edep |-> 1]}
OpExitCalls == {EPos(0)}
\* What a read past the end of a vector can find.
Garbage == {0, 7}

Access(vector, index, size) == [vector |-> vector, index |-> index, size |-> size]
InBounds(accesses) == \A a \in accesses : a.index < a.size

\* The fields every operation of a sequence leaves alone.
OpFrame ==
    /\ delivered < MaxSequence
    /\ phase[Master] # "aborted"
    /\ delivered' = delivered + 1
    /\ UNCHANGED <<neutrons, mode, numberOfEvent, addedEdep, addedExit, pc, frame>>

OpSet(fn, new) ==
    /\ OpFrame
    /\ runAction' = [runAction EXCEPT ![Master] = new]
    /\ answer' = [fn |-> fn, accesses |-> {}]
    /\ UNCHANGED <<phase, outputDir>>

OpSetZBins(n) == OpSet("SetZBins", SetZBins(runAction[Master], n))
OpSetZRange(zmin, zmax) == OpSet("SetZRange", SetZRange(runAction[Master], zmin, zmax))
OpSetEnergyBins(n) == OpSet("SetEnergyBins", SetEnergyBins(runAction[Master], n))
OpSetEnergyRange(emin, emax) ==
    OpSet("SetEnergyRange", SetEnergyRange(runAction[Master], emin, emax))

OpBeginOfRunAction ==
    /\ OpFrame
    /\ runAction' = [runAction EXCEPT ![Master] = BeginOfRun(@)]
    /\ phase' = [phase EXCEPT ![Master] = "running"]
    /\ answer' = [fn |-> "BeginOfRunAction", accesses |-> {}]
    /\ UNCHANGED outputDir

\* What an element access past the end of a std::vector (operator[] does
\* not check) can do to the program: end it, write to memory that is no part
\* of the RunAction, or write into the other vector.
StrayWrite(self, other, x) ==
    {[ends |-> TRUE, self |-> self], [ends |-> FALSE, self |-> self]}
       \cup (IF other = "fNeutronSpectrum" /\ Len(self.fNeutronSpectrum) > 0
             THEN {[ends |-> FALSE,
                    self |-> [self EXCEPT !.fNeutronSpectrum[1] = @ + x]]}
             ELSE IF other = "fEdepHist" /\ Len(self.fEdepHist) > 0
             THEN {[ends |-> FALSE, self |-> [self EXCEPT !.fEdepHist[1] = @ + x]]}
             ELSE {})

OpAddEdep(call) ==
    LET self == runAction[Master]
        touches == call.zBin >= 0 /\ call.zBin < self.fZBins
        accesses == IF touches
                    THEN {Access("fEdepHist", call.zBin, Len(self.fEdepHist))}
                    ELSE {}
    IN  /\ OpFrame
        /\ answer' = [fn |-> "AddEdep", accesses |-> accesses]
        /\ IF InBounds(accesses)
           THEN /\ runAction' = [runAction EXCEPT ![Master] =
                                    AddEdep(self, call.zBin, call.edep)]
                /\ UNCHANGED phase
           ELSE \E o \in StrayWrite(self, "fNeutronSpectrum", call.edep) :
                   /\ runAction' = [runAction EXCEPT ![Master] = o.self]
                   /\ phase' = IF o.ends THEN [phase EXCEPT ![Master] = "aborted"]
                               ELSE phase
        /\ UNCHANGED outputDir

OpAddNeutronExit(energy) ==
    LET self == runAction[Master]
    IN  /\ OpFrame
        /\ \E bin \in GetEnergyBinOutcomes(self, energy) :
              LET touches == bin >= 0 /\ bin < self.fEnergyBins
                  accesses ==
                      IF touches
                      THEN {Access("fNeutronSpectrum", bin, Len(self.fNeutronSpectrum))}
                      ELSE {}
              IN  /\ answer' = [fn |-> "AddNeutronExit", accesses |-> accesses]
                  /\ IF ~touches
                     THEN UNCHANGED <<runAction, phase>>
                     ELSE IF InBounds(accesses)
                     THEN /\ runAction' = [runAction EXCEPT
                                 ![Master].fNeutronSpectrum[bin + 1] = @ + 1]
                          /\ UNCHANGED phase
                     ELSE \E o \in StrayWrite(self, "fEdepHist", 1) :
                             /\ runAction' = [runAction EXCEPT ![Master] = o.self]
                             /\ phase' = IF o.ends
                                         THEN [phase EXCEPT ![Master] = "aborted"]
                                         ELSE phase
        /\ UNCHANGED outputDir

\* The RunAction as a loop over fZBins / fEnergyBins elements reads it:
\* past the end of a vector, garbage.
ReadPastEnd(self, g) ==
    [self EXCEPT
       !.fEdepHist = [k \in 1..self.fZBins |->
                         IF k <= Len(self.fEdepHist) THEN self.fEdepHist[k] ELSE g],
       !.fNeutronSpectrum = [k \in 1..self.fEnergyBins |->
                                IF k <= Len(self.fNeutronSpectrum)
                                THEN self.fNeutronSpectrum[k] ELSE g]]

\* RunAction::EndOfRunAction for a G4Run of nofEvents events.
OpEndOfRunAction(nofEvents, edepOpens, specOpens) ==
    LET self == runAction[Master]
        writes == nofEvents # 0 /\ IsMaster(Master)
        accesses ==
            (IF writes /\ edepOpens /\ self.fZBins > 0
             THEN {Access("fEdepHist", self.fZBins - 1, Len(self.fEdepHist))}
             ELSE {})
            \cup (IF writes /\ specOpens /\ self.fEnergyBins > 0
                  THEN {Access("fNeutronSpectrum", self.fEnergyBins - 1,
                               Len(self.fNeutronSpectrum))}
                  ELSE {})
    IN  /\ OpFrame
        /\ answer' = [fn |-> "EndOfRunAction", accesses |-> accesses]
        /\ IF InBounds(accesses)
           THEN /\ outputDir' = EndOfRun(self, nofEvents, IsMaster(Master), outputDir,
                                         edepOpens, specOpens)
                /\ phase' = [phase EXCEPT ![Master] = "ended"]
           ELSE \/ /\ phase' = [phase EXCEPT ![Master] = "aborted"]
                   /\ UNCHANGED outputDir
                \/ \E g \in Garbage :
                      /\ outputDir' = EndOfRun(ReadPastEnd(self, g), nofEvents,
                                               IsMaster(Master), outputDir,
                                               edepOpens, specOpens)
                      /\ phase' = [phase EXCEPT ![Master] = "ended"]
        /\ UNCHANGED runAction

InitOps ==
    /\ InitRun /\ mode = "serial"
    /\ pc = << >> /\ frame = << >>
    /\ answer = [fn |-> "RunAction", accesses |-> {}]
    /\ neutrons = << >>

NextOps ==
    \/ \E n \in OpZBinsInputs : OpSetZBins(n)
    \/ \E r \in OpZRangeInputs : OpSetZRange(r[1], r[2])
    \/ \E n \in OpEnergyBinsInputs : OpSetEnergyBins(n)
    \/ \E r \in OpERangeInputs : OpSetEnergyRange(r[1], r[2])
    \/ OpBeginOfRunAction
    \/ \E call \in OpEdepCalls : OpAddEdep(call)
    \/ \E energy \in OpExitCalls : OpAddNeutronExit(energy)
    \/ \E nofEvents \in {0, 1}, edepOpens \in BOOLEAN, specOpens \in BOOLEAN :
          OpEndOfRunAction(nofEvents, edepOpens, specOpens)

SpecOps == InitOps /\ [][NextOps]_vars

\* C18: in every sequence of the public operations, each element of
\* fEdepHist or fNeutronSpectrum that AddEdep, AddNeutronExit or WriteResults
\* touches has an index below the size of the vector at that time.
C18_IndexInBounds == InBounds(answer.accesses)

\* --------------------------------------------- neutron tracks, step by step
\* The engine follows NTracks neutron tracks of one serial run and calls
\* UserSteppingAction after each step. A track starts in the target, steps
\* from volume to volume and ends when it leaves the world; nothing in
\* SteppingAction stops a track. neutrons[t].exits is the number of counts
\* that the steps of track t added to fNeutronSpectrum.
NTracks == 2
MaxTrackSteps == 4

Tracks == 1..NTracks
\* The material of the volume a track can step into; "null": out of the world.
PostVolumes == {"G4_Fe", "G4_Galactic", "null"}

\* The kinetic energy of the tracks, and element k of fNeutronSpectrum is
\* its bin.
TrackEnergy == EPos(0)
TrackBin(self) == GetEnergyBin(self, TrackEnergy) + 1

\* One step of track t into postVol, depositing edep (nothing in vacuum),
\* and the UserSteppingAction call for it.
TrackStep(t, postVol, edep) ==
    /\ neutrons[t].volume # "null"
    /\ neutrons[t].volume = "G4_Galactic" => edep = 0
    /\ delivered < MaxTrackSteps
    /\ Stepping(Master, StepOf(edep, 1, "neutron", postVol, TrackEnergy),
                postVol = "null")
    /\ LET k == TrackBin(runAction[Master])
       IN  neutrons' = [neutrons EXCEPT ![t] =
              [volume |-> postVol,
               exits |-> @.exits + runAction'[Master].fNeutronSpectrum[k]
                                 - runAction[Master].fNeutronSpectrum[k]]]
    /\ UNCHANGED answer

InitTrack ==
    /\ InitRun /\ mode = "serial"
    /\ pc = << >> /\ frame = << >>
    /\ answer = NoAnswer
    /\ neutrons = [t \in Tracks |-> [volume |-> "G4_Fe", exits |-> 0]]

NextTrack ==
    \/ BeginOfRunAction(Master)
    \/ \E t \in Tracks, postVol \in PostVolumes, edep \in {0, 1} :
          TrackStep(t, postVol, edep)

SpecTrack == InitTrack /\ [][NextTrack]_vars

\* C19: a neutron track adds at most one count to fNeutronSpectrum over all
\* of its steps, also when it enters G4_Galactic, steps on inside it and then
\* leaves the world.
C19_OneCountPerTrack == \A t \in DOMAIN neutrons : neutrons[t].exits <= 1

====
